---- MODULE Spec2Model ----
(***************************************************************************)
(* NahFS storage core.                                                     *)
(*   datanode  src/impl/datanode/src/block/mod.rs : index_block,           *)
(*             parse_metadata, write_block, read_indexed_block,            *)
(*             transfer_block over one BlockOperation                      *)
(*   namenode  src/impl/namenode/src/protocol/mod.rs : validate_block_ids, *)
(*             to_located_blocks_proto                                     *)
(* Bytes are their ASCII values; offsets are 0-based as in the source and  *)
(* are turned into TLA+'s 1-based positions only by At and Slice.          *)
(* TLC's integers are 32 bits wide: u64::MAX is stood for by the largest   *)
(* TLC integer, and the `as u32` casts of write_block are the identity on  *)
(* every length the bounds below allow.                                    *)
(***************************************************************************)
EXTENDS Integers, Sequences, FiniteSets, TLC

VARIABLES
    \* ---- datanode: one BlockOperation and the files / sockets it touches
    operation,      \* block_op.operation, or the way its processing ended
    data,           \* block_op.data
    replicas,       \* block_op.replicas
    bm_proto,       \* block_op.bm_proto
    timestamps,     \* block_op.timestamps : Option<(u64, u64)>
    index,          \* block_op.index : Option<BTreeMap<String, Vec<(usize, usize)>>>
    data_file,      \* blk_<id>
    meta_file,      \* blk_<id>.meta
    wire,           \* per replica: the bytes that reached its socket
    attempts,       \* per replica: number of TcpStream::connect calls
    transfer,       \* how transfer_block returned, and the environment's faults
    read,           \* the last read_indexed_block call and what it did
    \* ---- namenode: one request
    file_blocks,    \* file.blocks
    query,          \* Option<(&str, RadixQuery)> with the index's answer to it
    block_store,    \* BlockStore
    datanode_store, \* DatanodeStore
    spatial_index,  \* Index
    valid,          \* what validate_block_ids returned
    lbs_proto       \* what to_located_blocks_proto returned

dn_vars == <<operation, data, replicas, bm_proto, timestamps, index,
             data_file, meta_file, wire, attempts, transfer, read>>
nn_vars == <<file_blocks, query, block_store, datanode_store, spatial_index,
             valid, lbs_proto>>
vars == <<dn_vars, nn_vars>>

(***************************************************************************)
(* Bounds of the model.                                                    *)
(***************************************************************************)
MaxRecords == 3      \* records after the header in an indexed payload
MaxReadRecords == 2  \* records after the header in a payload that is read back
MaxReplicas == 2     \* replica endpoints of one transfer
MaxBlocks == 2       \* block ids of one file

(***************************************************************************)
(* Program constants.                                                      *)
(***************************************************************************)
COMMA == 44
NEWLINE == 10
U64_MAX == 2147483647
U64_MIN == 0
GEOHASH_PRECISION == 4
DEFAULT_CHAR == 120
DATA_TRANSFER_VERSION == 28
OP_TRANSFER_BLOCK == 82
BLOCK_ID == 7

(***************************************************************************)
(* Generic helpers: Option, 0-based indexing, slices.                      *)
(***************************************************************************)
None == [some |-> FALSE]
Some(v) == [some |-> TRUE, val |-> v]

At(s, i) == s[i + 1]
Slice(s, from, to) == SubSeq(s, from + 1, to)
Min(a, b) == IF a < b THEN a ELSE b

RECURSIVE Concat(_)
Concat(ss) == IF ss = <<>> THEN <<>> ELSE Head(ss) \o Concat(Tail(ss))

RECURSIVE SumSeq(_)
SumSeq(s) == IF s = <<>> THEN 0 ELSE Head(s) + SumSeq(Tail(s))

\* String order of Rust's Ord for String: bytewise lexicographic.
RECURSIVE StrLess(_, _)
StrLess(a, b) ==
    IF b = <<>> THEN FALSE
    ELSE IF a = <<>> THEN TRUE
    ELSE IF Head(a) # Head(b) THEN Head(a) < Head(b)
    ELSE StrLess(Tail(a), Tail(b))

(***************************************************************************)
(* str::parse::<f32>() and str::parse::<u64>() on the payload alphabet of  *)
(* this model (digits, ',', '\n', 'h', 'x'): a non-empty run of digits     *)
(* parses to its value, anything else is a ParseError (-1).                *)
(***************************************************************************)
IsDigit(b) == b >= 48 /\ b <= 57

RECURSIVE DigitsValue(_, _)
DigitsValue(s, acc) ==
    IF s = <<>> THEN acc ELSE DigitsValue(Tail(s), acc * 10 + (Head(s) - 48))

ParseNumber(s) ==
    IF s # <<>> /\ \A i \in 1..Len(s) : IsDigit(s[i])
    THEN DigitsValue(s, 0)
    ELSE -1

(***************************************************************************)
(* geohash::encode_16(latitude, longitude, 4): base-16 geohash, longitude  *)
(* bit first, 8 bits per axis; an out-of-range coordinate is an error.     *)
(***************************************************************************)
RECURSIVE Pow2(_)
Pow2(n) == IF n = 0 THEN 1 ELSE 2 * Pow2(n - 1)
Bit(x, i) == (x \div Pow2(i)) % 2
HexChar(v) == IF v < 10 THEN 48 + v ELSE 87 + v

encode_16(latitude, longitude) ==
    IF latitude > 90 \/ longitude > 180 THEN None
    ELSE LET lat == Min(255, ((latitude + 90) * 256) \div 180)
             lon == Min(255, ((longitude + 180) * 256) \div 360)
         IN Some([k \in 1..GEOHASH_PRECISION |->
                HexChar(  8 * Bit(lon, 9 - 2 * k) + 4 * Bit(lat, 9 - 2 * k)
                        + 2 * Bit(lon, 8 - 2 * k) + Bit(lat, 8 - 2 * k))])

(***************************************************************************)
(* shared::geohash_char_to_value: a hexadecimal character's value, an      *)
(* error (-1) for any other character.                                     *)
(***************************************************************************)
geohash_char_to_value(c) ==
    IF c >= 48 /\ c <= 57 THEN c - 48
    ELSE IF c >= 97 /\ c <= 102 THEN c - 87
    ELSE -1

(***************************************************************************)
(* parse_metadata(data, commas).  Result: "panic" (an index or slice out   *)
(* of range), "err" (a parse or coding error), or "ok" with the pair.      *)
(***************************************************************************)
parse_metadata(obs, commas) ==
    IF Len(commas) < 4 THEN [kind |-> "panic"]
    ELSE IF commas[3] + 1 > commas[4] - 2 THEN [kind |-> "panic"]
    ELSE LET latitude == ParseNumber(Slice(obs, 0, commas[1]))
             longitude == ParseNumber(Slice(obs, commas[1] + 1, commas[2]))
             timestamp == ParseNumber(Slice(obs, commas[3] + 1, commas[4] - 2))
         IN IF latitude < 0 \/ longitude < 0 \/ timestamp < 0
            THEN [kind |-> "err"]
            ELSE LET geohash == encode_16(latitude, longitude)
                 IN IF ~geohash.some THEN [kind |-> "err"]
                    ELSE [kind |-> "ok", geohash |-> geohash.val,
                          timestamp |-> timestamp]

(***************************************************************************)
(* BTreeMap<String, Vec<(usize, usize)>> as the list of its entries in key *)
(* order; entry(k).or_insert(Vec::new()).push(r).                          *)
(***************************************************************************)
RECURSIVE BTreePush(_, _, _)
BTreePush(m, k, r) ==
    IF m = <<>> THEN << [key |-> k, ranges |-> <<r>>] >>
    ELSE IF Head(m).key = k
         THEN << [key |-> k, ranges |-> Append(Head(m).ranges, r)] >> \o Tail(m)
    ELSE IF StrLess(k, Head(m).key)
         THEN << [key |-> k, ranges |-> <<r>>] >> \o m
    ELSE << Head(m) >> \o BTreePush(Tail(m), k, r)

(***************************************************************************)
(* index_block, lines 66-77: the scan for the end of one observation.      *)
(***************************************************************************)
RECURSIVE ScanObservation(_, _, _, _)
ScanObservation(d, start_index, end_index, delimiter_indices) ==
    IF end_index < Len(d) - 1
    THEN LET e == end_index + 1
         IN IF At(d, e) = COMMA
            THEN ScanObservation(d, start_index, e,
                                 Append(delimiter_indices, e - start_index))
            ELSE IF At(d, e) = NEWLINE
            THEN [end_index |-> e, delimiter_indices |-> delimiter_indices]
            ELSE ScanObservation(d, start_index, e, delimiter_indices)
    ELSE [end_index |-> end_index, delimiter_indices |-> delimiter_indices]

(***************************************************************************)
(* index_block, lines 60-108: the loop over the observations.  s is the    *)
(* loop state; the result is s at loop exit, or s with panic set.          *)
(***************************************************************************)
RECURSIVE IndexLoop(_, _)
IndexLoop(d, s) ==
    IF ~(s.end_index < Len(d) - 1) THEN s
    ELSE
    LET start_index == s.end_index
        scan == ScanObservation(d, start_index, s.end_index, <<>>)
        end_index == IF At(d, scan.end_index) = NEWLINE
                     THEN scan.end_index + 1 ELSE scan.end_index
        delims == scan.delimiter_indices
        moved == [s EXCEPT !.end_index = end_index]
    IN  IF s.feature_count = 0 /\ start_index = 0
        THEN IndexLoop(d, moved)
        ELSE IF s.feature_count # 0 /\ Len(delims) + 1 # s.feature_count
        THEN IndexLoop(d, moved)
        ELSE
        LET counted == [moved EXCEPT !.feature_count =
                            IF s.feature_count = 0 THEN Len(delims) + 1
                            ELSE s.feature_count]
            parsed == parse_metadata(Slice(d, start_index, end_index), delims)
        IN  IF parsed.kind = "panic" THEN [counted EXCEPT !.panic = TRUE]
            ELSE IF parsed.kind = "err" THEN IndexLoop(d, counted)
            ELSE IndexLoop(d,
                   [counted EXCEPT
                      !.geohashes = BTreePush(@, parsed.geohash,
                                              <<start_index, end_index>>),
                      !.min_timestamp = IF parsed.timestamp < @
                                        THEN parsed.timestamp ELSE @,
                      !.max_timestamp = IF parsed.timestamp > @
                                        THEN parsed.timestamp ELSE @])

\* index_block as a function of the payload.  An empty payload makes
\* `data.len() - 1` underflow: an overflow panic in a debug build, and in a
\* release build a wrapped bound followed by the out-of-range read data[1].
index_block(d) ==
    IF Len(d) = 0
    THEN [panic |-> TRUE, geohashes |-> <<>>, end_index |-> 0, feature_count |-> 0,
          min_timestamp |-> U64_MAX, max_timestamp |-> U64_MIN]
    ELSE IndexLoop(d, [panic |-> FALSE, geohashes |-> <<>>, end_index |-> 0,
                       feature_count |-> 0,
                       min_timestamp |-> U64_MAX, max_timestamp |-> U64_MIN])

(***************************************************************************)
(* BlockMetadataProto / BlockIndexProto and their length-delimited binary  *)
(* encoding: a length prefix, then the fields in order, every repeated     *)
(* field behind its count and every string behind its length.              *)
(***************************************************************************)
BlockMetadataProto_default == [block_id |-> 0, length |-> 0, index |-> None]

RECURSIVE EncodeStrings(_)
EncodeStrings(ss) ==
    IF ss = <<>> THEN <<>>
    ELSE << Len(Head(ss)) >> \o Head(ss) \o EncodeStrings(Tail(ss))

encode_length_delimited(bm) ==
    LET body == << bm.block_id, bm.length >> \o
                (IF bm.index.some
                 THEN LET bi == bm.index.val
                      IN << 1, Len(bi.geohashes) >> \o EncodeStrings(bi.geohashes)
                         \o bi.start_indices \o bi.end_indices
                         \o << bi.start_timestamp, bi.end_timestamp >>
                 ELSE << 0 >>)
    IN << Len(body) >> \o body

\* n strings read from position pos (0-based) of buf: the strings and the
\* position after them.
RECURSIVE DecodeStrings(_, _, _)
DecodeStrings(buf, pos, n) ==
    IF n = 0 THEN [strings |-> <<>>, pos |-> pos]
    ELSE LET len == At(buf, pos)
             rest == DecodeStrings(buf, pos + 1 + len, n - 1)
         IN [strings |-> << Slice(buf, pos + 1, pos + 1 + len) >> \o rest.strings,
             pos |-> rest.pos]

decode_length_delimited(buf) ==
    LET body == Slice(buf, 1, 1 + At(buf, 0))
    IN IF At(body, 2) = 0
       THEN [block_id |-> At(body, 0), length |-> At(body, 1), index |-> None]
       ELSE LET n == At(body, 3)
                strs == DecodeStrings(body, 4, n)
                p == strs.pos
            IN [block_id |-> At(body, 0), length |-> At(body, 1),
                index |-> Some([geohashes |-> strs.strings,
                                start_indices |-> Slice(body, p, p + n),
                                end_indices |-> Slice(body, p + n, p + 2 * n),
                                start_timestamp |-> At(body, p + 2 * n),
                                end_timestamp |-> At(body, p + 2 * n + 1)])]

(***************************************************************************)
(* write_block, lines 283-295: the data file's bytes and the index         *)
(* descriptor, entry by entry in the map's key order.                      *)
(***************************************************************************)
RECURSIVE WriteRanges(_, _)
WriteRanges(d, indices) ==
    IF indices = <<>> THEN <<>>
    ELSE Slice(d, Head(indices)[1], Head(indices)[2]) \o WriteRanges(d, Tail(indices))

RECURSIVE RangesLength(_)
RangesLength(indices) ==
    IF indices = <<>> THEN 0
    ELSE (Head(indices)[2] - Head(indices)[1]) + RangesLength(Tail(indices))

RECURSIVE WriteIndexed(_, _, _)
WriteIndexed(d, block_index, w) ==
    IF block_index = <<>> THEN w
    ELSE LET e == Head(block_index)
             current_index == w.current_index + RangesLength(e.ranges)
         IN WriteIndexed(d, Tail(block_index),
              [written |-> w.written \o WriteRanges(d, e.ranges),
               geohashes |-> Append(w.geohashes, e.key),
               start_indices |-> Append(w.start_indices, w.current_index),
               end_indices |-> Append(w.end_indices, current_index),
               current_index |-> current_index])

\* write_block recording the payload's length for an indexed block too.
write_block_input_length(block_id, d, bm, block_index, ts) ==
    IF block_index.some /\ ts.some
    THEN LET w == WriteIndexed(d, block_index.val,
                    [written |-> <<>>, geohashes |-> <<>>, start_indices |-> <<>>,
                     end_indices |-> <<>>, current_index |-> 0])
             bi == [geohashes |-> w.geohashes,
                    start_indices |-> w.start_indices,
                    end_indices |-> w.end_indices,
                    start_timestamp |-> ts.val[1],
                    end_timestamp |-> ts.val[2]]
             out == [bm EXCEPT !.block_id = block_id,
                               !.length = Len(d),
                               !.index = Some(bi)]
         IN [data_file |-> w.written, bm_proto |-> out,
             meta_file |-> encode_length_delimited(out)]
    ELSE LET out == [bm EXCEPT !.block_id = block_id, !.length = Len(d)]
         IN [data_file |-> d, bm_proto |-> out,
             meta_file |-> encode_length_delimited(out)]

\* write_block as a function of the BlockOperation: the two files and the
\* metadata record left in block_op.bm_proto.
write_block(block_id, d, bm, block_index, ts) ==
    IF block_index.some /\ ts.some
    THEN LET w == WriteIndexed(d, block_index.val,
                    [written |-> <<>>, geohashes |-> <<>>, start_indices |-> <<>>,
                     end_indices |-> <<>>, current_index |-> 0])
             bi == [geohashes |-> w.geohashes,
                    start_indices |-> w.start_indices,
                    end_indices |-> w.end_indices,
                    start_timestamp |-> ts.val[1],
                    end_timestamp |-> ts.val[2]]
             out == [bm EXCEPT !.block_id = block_id,
                               !.length = w.current_index,
                               !.index = Some(bi)]
         IN [data_file |-> w.written, bm_proto |-> out,
             meta_file |-> encode_length_delimited(out)]
    ELSE LET out == [bm EXCEPT !.block_id = block_id, !.length = Len(d)]
         IN [data_file |-> d, bm_proto |-> out,
             meta_file |-> encode_length_delimited(out)]

(***************************************************************************)
(* read_indexed_block, lines 163-204.  s is the loop state: the            *)
(* destination, buf_index, remaining_offset, how the call ended so far,    *)
(* and per index entry the bytes it had copied and the bytes of the skip   *)
(* counter it consumed.                                                    *)
(***************************************************************************)
\* lines 182-201: the while loop over one matching entry i.
RECURSIVE ReadRange(_, _, _, _, _)
ReadRange(file, i, start_index, end_index, s) ==
    IF s.status # "ok" \/ ~(start_index < end_index) THEN s
    ELSE LET index_length == end_index - start_index
         IN IF s.remaining_offset > 0
            THEN LET byte_count == Min(s.remaining_offset, index_length)
                 IN ReadRange(file, i, start_index + byte_count, end_index,
                      [s EXCEPT !.remaining_offset = @ - byte_count,
                                !.skipped[i] = @ + byte_count])
            ELSE IF s.buf_index + index_length > Len(s.buf)
            THEN [s EXCEPT !.status = "panic"]   \* slice end out of range
            ELSE IF start_index + index_length > Len(file)
            THEN [s EXCEPT !.status = "err"]     \* read_exact: unexpected EOF
            ELSE ReadRange(file, i, start_index + index_length, end_index,
                      [s EXCEPT
                         !.buf = [k \in 1..Len(s.buf) |->
                                    IF k > s.buf_index /\ k <= s.buf_index + index_length
                                    THEN At(file, start_index + (k - s.buf_index) - 1)
                                    ELSE s.buf[k]],
                         !.buf_index = @ + index_length,
                         !.copied[i] = @ + index_length])

\* The loop over the index entries without the membership test of line 177.
RECURSIVE ReadEntriesUnfiltered(_, _, _, _, _)
ReadEntriesUnfiltered(bi_proto, file, geohashes, i, s) ==
    IF s.status # "ok" \/ i > Len(bi_proto.geohashes) THEN s
    ELSE LET code == bi_proto.geohashes[i]
             c == IF code = <<>> THEN DEFAULT_CHAR ELSE code[Len(code)]
         IN IF geohash_char_to_value(c) < 0
            THEN ReadEntriesUnfiltered(bi_proto, file, geohashes, i + 1, s)
            ELSE ReadEntriesUnfiltered(bi_proto, file, geohashes, i + 1,
                    ReadRange(file, i, bi_proto.start_indices[i],
                              bi_proto.end_indices[i], s))

\* lines 166-203: the loop over the index entries.
RECURSIVE ReadEntries(_, _, _, _, _)
ReadEntries(bi_proto, file, geohashes, i, s) ==
    IF s.status # "ok" \/ i > Len(bi_proto.geohashes) THEN s
    ELSE LET code == bi_proto.geohashes[i]
             c == IF code = <<>> THEN DEFAULT_CHAR ELSE code[Len(code)]
             geohash_key == geohash_char_to_value(c)
         IN IF geohash_key < 0
            THEN ReadEntries(bi_proto, file, geohashes, i + 1, s)
            ELSE IF geohash_key \in geohashes
            THEN ReadEntries(bi_proto, file, geohashes, i + 1,
                    ReadRange(file, i, bi_proto.start_indices[i],
                              bi_proto.end_indices[i], s))
            ELSE ReadEntries(bi_proto, file, geohashes, i + 1, s)

read_indexed_block(metadata_buf, file, geohashes, offset, buf) ==
    LET bm == decode_length_delimited(metadata_buf)
        n == IF bm.index.some THEN Len(bm.index.val.geohashes) ELSE 0
        s0 == [status |-> "ok", buf |-> buf, buf_index |-> 0,
               remaining_offset |-> offset,
               copied |-> [k \in 1..n |-> 0], skipped |-> [k \in 1..n |-> 0]]
    IN IF bm.index.some
       THEN ReadEntries(bm.index.val, file, geohashes, 1, s0)
       ELSE s0

(***************************************************************************)
(* transfer_block, lines 213-254.  faults[i] is what the network does to   *)
(* replica i: "ok", "connect" (TcpStream::connect fails), or the write     *)
(* that fails: "version" (224), "op" (225), "metadata" (230-231),          *)
(* "payload" (239-248).  The writer is buffered and flushed at 231 and     *)
(* 248, so a failed write leaves on the wire what was flushed before it.   *)
(***************************************************************************)
Faults == {"ok", "connect", "version", "op", "metadata", "payload"}

write_u16_BigEndian(v) == << v \div 256, v % 256 >>

\* The payload sent verbatim whether or not the block is indexed.
TransferPayloadVerbatim(d, block_index, ts) == d

\* lines 234-246: the payload, in the layout write_block gave the data file.
TransferPayload(d, block_index, ts) ==
    IF block_index.some /\ ts.some
    THEN Concat([k \in 1..Len(block_index.val) |->
                    WriteRanges(d, block_index.val[k].ranges)])
    ELSE d

TransferHeader(bm) ==
    write_u16_BigEndian(DATA_TRANSFER_VERSION) \o << OP_TRANSFER_BLOCK >>
        \o encode_length_delimited(bm)

RECURSIVE TransferLoop(_, _, _, _, _, _, _)
TransferLoop(d, bm, block_index, ts, faults, i, s) ==
    IF i > Len(faults) THEN [s EXCEPT !.returned = "ok"]
    ELSE LET tried == [s EXCEPT !.attempts[i] = @ + 1]
             head == TransferHeader(bm)
         IN IF faults[i] = "connect"
            THEN TransferLoop(d, bm, block_index, ts, faults, i + 1, tried)
            ELSE IF faults[i] = "ok"
            THEN TransferLoop(d, bm, block_index, ts, faults, i + 1,
                   [tried EXCEPT !.wire[i] =
                        head \o TransferPayload(d, block_index, ts)])
            ELSE IF faults[i] = "payload"
            THEN [tried EXCEPT !.wire[i] = head, !.returned = "err"]
            ELSE [tried EXCEPT !.returned = "err"]

transfer_block(d, reps, bm, block_index, ts, faults) ==
    TransferLoop(d, bm, block_index, ts, faults, 1,
        [returned |-> "none",
         attempts |-> [k \in 1..Len(reps) |-> 0],
         wire |-> [k \in 1..Len(reps) |-> <<>>]])

(***************************************************************************)
(* The operations on one BlockOperation.  The processor runs them in the   *)
(* order INDEX, WRITE, TRANSFER, each advancing block_op.operation.        *)
(***************************************************************************)
IndexBlock ==
    /\ operation = "INDEX"
    /\ LET r == index_block(data)
       IN IF r.panic
          THEN /\ operation' = "PANIC"
               /\ UNCHANGED <<timestamps, index>>
          ELSE /\ operation' = "WRITE"
               /\ timestamps' = Some(<<r.min_timestamp, r.max_timestamp>>)
               /\ index' = Some(r.geohashes)
    /\ UNCHANGED <<data, replicas, bm_proto, data_file, meta_file, wire,
                   attempts, transfer, read, nn_vars>>

WriteBlock ==
    /\ operation = "WRITE"
    /\ LET w == write_block(BLOCK_ID, data, bm_proto, index, timestamps)
       IN /\ data_file' = Some(w.data_file)
          /\ meta_file' = Some(w.meta_file)
          /\ bm_proto' = w.bm_proto
    /\ operation' = "TRANSFER"
    /\ UNCHANGED <<data, replicas, timestamps, index, wire, attempts,
                   transfer, read, nn_vars>>

TransferBlock(faults) ==
    /\ operation = "TRANSFER"
    /\ LET t == transfer_block(data, replicas, bm_proto, index, timestamps, faults)
       IN /\ wire' = t.wire
          /\ attempts' = t.attempts
          /\ transfer' = [returned |-> t.returned, faults |-> faults]
    /\ operation' = "DONE"
    /\ UNCHANGED <<data, replicas, bm_proto, timestamps, index, data_file,
                   meta_file, read, nn_vars>>

\* A read request served from the two files of the block: the destination
\* is a zeroed buffer of buf_len bytes.
ReadIndexedBlock(geohashes, offset, buf_len) ==
    /\ data_file.some /\ meta_file.some
    /\ LET buf == [k \in 1..buf_len |-> 0]
           r == read_indexed_block(meta_file.val, data_file.val,
                                   geohashes, offset, buf)
       IN read' = [called |-> TRUE, geohashes |-> geohashes, offset |-> offset,
                   buf0 |-> buf, status |-> r.status, buf |-> r.buf,
                   remaining_offset |-> r.remaining_offset,
                   copied |-> r.copied, skipped |-> r.skipped]
    /\ UNCHANGED <<operation, data, replicas, bm_proto, timestamps, index,
                   data_file, meta_file, wire, attempts, transfer, nn_vars>>

(***************************************************************************)
(* Payloads.  A payload is a header line followed by records and, maybe,   *)
(* a last record that the block boundary cut before its newline.           *)
(***************************************************************************)
HeaderLine == << 104, 10 >>                                    \* "h\n"
RecA    == << 48, 44, 48, 44, 44, 49, 120, 120, 44, 10 >>      \* "0,0,,1xx,\n"
RecA3   == << 48, 44, 48, 44, 44, 51, 120, 120, 44, 10 >>      \* "0,0,,3xx,\n"
RecB    == << 50, 44, 50, 44, 44, 50, 120, 120, 44, 10 >>      \* "2,2,,2xx,\n"
BadLat  == << 120, 44, 48, 44, 44, 49, 120, 120, 44, 10 >>     \* "x,0,,1xx,\n"
BadTime == << 48, 44, 48, 44, 44, 120, 120, 120, 44, 10 >>     \* "0,0,,xxx,\n"
BadGeo  == << 57, 57, 44, 48, 44, 44, 49, 120, 120, 44, 10 >>  \* "99,0,,1xx,\n"
Wide    == << 48, 44, 48, 44, 44, 49, 120, 120, 44, 44, 10 >>  \* "0,0,,1xx,,\n"
Few     == << 48, 44, 48, 10 >>                                \* "0,0\n"
ShortTime == << 48, 44, 48, 44, 44, 49, 44, 10 >>              \* "0,0,,1,\n"
LeadComma == << 44, 48, 44, 48, 44, 44, 49, 120, 120, 44, 10 >> \* ",0,0,,1xx,\n"
EmptyLine == << 10 >>                                          \* "\n"
CutRecord == << 48, 44, 48, 44, 44, 49, 120, 120, 44, 55 >>    \* "0,0,,1xx,7"

Records == {RecA, RecA3, RecB, BadLat, BadTime, BadGeo, Wide, Few, ShortTime,
            LeadComma, EmptyLine}
ReadRecords == {RecA, RecA3, RecB, BadLat}

SeqsUpTo(S, n) == UNION {[1..k -> S] : k \in 0..n}

IndexPayloads ==
    {<<>>, << 104 >>} \cup
    {h \o Concat(rs) \o t : h \in {HeaderLine, RecA},
                            rs \in SeqsUpTo(Records, MaxRecords),
                            t \in {<<>>, CutRecord}}

ReadPayloads ==
    {HeaderLine \o Concat(rs) : rs \in SeqsUpTo(ReadRecords, MaxReadRecords)}

Endpoints(n) == [k \in 1..n |-> [ip_addr |-> k, xfer_port |-> k, datanode_uuid |-> k]]

\* The values geohash_char_to_value gives the last characters of the codes
\* of this model's records (0 and 6), and one no record has (5).
ReadKeys == {0, 5, 6}

(***************************************************************************)
(* Initial states: BlockOperation::new, lines 34-45; no file written yet.  *)
(***************************************************************************)
InitNamenodeIdle ==
    /\ file_blocks = <<>>
    /\ query = None
    /\ block_store = <<>>
    /\ datanode_store = <<>>
    /\ spatial_index = <<>>
    /\ valid = None
    /\ lbs_proto = None

InitBlockOperation(payloads, operations, replica_counts) ==
    /\ data \in payloads
    /\ operation \in operations
    /\ \E n \in replica_counts : replicas = Endpoints(n)
    /\ bm_proto = BlockMetadataProto_default
    /\ timestamps = None
    /\ index = None
    /\ data_file = None
    /\ meta_file = None
    /\ wire = [k \in 1..Len(replicas) |-> <<>>]
    /\ attempts = [k \in 1..Len(replicas) |-> 0]
    /\ transfer = [returned |-> "none", faults |-> <<>>]
    /\ read = [called |-> FALSE]

(***************************************************************************)
(* SpecIndex: index, write, and the filtered read of the whole block.      *)
(***************************************************************************)
AllKeys == 0..15

InitIndex == InitBlockOperation(IndexPayloads, {"INDEX"}, {0}) /\ InitNamenodeIdle

ReadWholeBlock ==
    /\ ~read.called
    /\ ReadIndexedBlock(AllKeys, 0, bm_proto.length)

NextIndex == IndexBlock \/ WriteBlock \/ ReadWholeBlock

SpecIndex == InitIndex /\ [][NextIndex]_vars

(***************************************************************************)
(* SpecRead: index, write,           then a filtered read at any offset     *)
(* into any buffer.  A read changes neither file, so the calls a block     *)
(* can serve are the calls its written state can serve.                    *)
(***************************************************************************)
InitRead == InitBlockOperation(ReadPayloads, {"INDEX"}, {0}) /\ InitNamenodeIdle

ReadAnywhere ==
    /\ data_file.some
    /\ ~read.called
    /\ \E geohashes \in SUBSET ReadKeys :
        \E offset \in 0..Len(data_file.val) :
            \E buf_len \in 0..Len(data_file.val) :
                ReadIndexedBlock(geohashes, offset, buf_len)

NextRead == IndexBlock \/ WriteBlock \/ ReadAnywhere

SpecRead == InitRead /\ [][NextRead]_vars

(***************************************************************************)
(* SpecTransfer: index (or not), write, transfer to the replicas under     *)
(* every combination of network faults.                                    *)
(***************************************************************************)
InitTransfer ==
    InitBlockOperation(ReadPayloads, {"INDEX", "WRITE"}, 0..MaxReplicas)
    /\ InitNamenodeIdle

TransferUnderFaults ==
    \E faults \in [1..Len(replicas) -> Faults] : TransferBlock(faults)

NextTransfer == IndexBlock \/ WriteBlock \/ TransferUnderFaults

SpecTransfer == InitTransfer /\ [][NextTransfer]_vars

(***************************************************************************)
(* Namenode.  The stores are functions from an id to its record; a lookup  *)
(* of an id outside the domain is get_*'s None.                            *)
(***************************************************************************)
\* Index::query(query, block_ids): for every candidate block id one entry,
\* holding the values of the codes of that block the query matches and the
\* length of each; iterated in block-id order.  A RadixQuery is stood for
\* by the set of code values it matches.
RECURSIVE MatchedCodes(_, _)
MatchedCodes(entries, q) ==
    IF entries = <<>> THEN [geohashes |-> <<>>, lengths |-> <<>>]
    ELSE LET rest == MatchedCodes(Tail(entries), q)
         IN IF Head(entries).geohash \in q
            THEN [geohashes |-> << Head(entries).geohash >> \o rest.geohashes,
                  lengths |-> << Head(entries).length >> \o rest.lengths]
            ELSE rest

RECURSIVE SortedIds(_)
SortedIds(S) ==
    IF S = {} THEN <<>>
    ELSE LET m == CHOOSE x \in S : \A y \in S : x <= y
         IN << m >> \o SortedIds(S \ {m})

IndexQuery(idx, q, block_ids) ==
    LET ids == SortedIds({block_ids[k] : k \in 1..Len(block_ids)})
    IN [k \in 1..Len(ids) |->
          [block_id |-> ids[k],
           matched |-> IF ids[k] \in DOMAIN idx
                       THEN MatchedCodes(idx[ids[k]], q)
                       ELSE [geohashes |-> <<>>, lengths |-> <<>>]]]

\* shared::block::encode_block_id: the physical id with one flag per matched
\* code value set above the physical id's bits.
ID_SPACE == 16

RECURSIVE CodeFlags(_)
CodeFlags(S) ==
    IF S = {} THEN 0
    ELSE LET v == CHOOSE x \in S : TRUE IN Pow2(v) + CodeFlags(S \ {v})

encode_block_id(block_id, geohashes) ==
    block_id + ID_SPACE * CodeFlags({geohashes[k] : k \in 1..Len(geohashes)})

\* The loop over the index's answer without the skip of lines 205-207.
RECURSIVE ValidateQueriedKeepEmpty(_)
ValidateQueriedKeepEmpty(query_map) ==
    IF query_map = <<>> THEN <<>>
    ELSE LET e == Head(query_map)
         IN << [block_id |-> e.block_id,
                query_result |->
                   Some([id |-> encode_block_id(e.block_id, e.matched.geohashes),
                         length |-> SumSeq(e.matched.lengths)])] >>
            \o ValidateQueriedKeepEmpty(Tail(query_map))

\* validate_block_ids, lines 204-221: the loop over the index's answer.
RECURSIVE ValidateQueried(_)
ValidateQueried(query_map) ==
    IF query_map = <<>> THEN <<>>
    ELSE LET e == Head(query_map)
         IN IF Len(e.matched.geohashes) = 0
            THEN ValidateQueried(Tail(query_map))
            ELSE << [block_id |-> e.block_id,
                     query_result |->
                        Some([id |-> encode_block_id(e.block_id, e.matched.geohashes),
                              length |-> SumSeq(e.matched.lengths)])] >>
                 \o ValidateQueried(Tail(query_map))

\* validate_block_ids, lines 225-229: the loop over the file's block ids.
RECURSIVE ValidateStored(_, _)
ValidateStored(block_ids, store) ==
    IF block_ids = <<>> THEN <<>>
    ELSE IF Head(block_ids) \in DOMAIN store
         THEN << [block_id |-> Head(block_ids), query_result |-> None] >>
              \o ValidateStored(Tail(block_ids), store)
         ELSE ValidateStored(Tail(block_ids), store)

validate_block_ids(block_ids, store, idx, q) ==
    IF q.some
    THEN ValidateQueried(IndexQuery(idx, q.val, block_ids))
    ELSE ValidateStored(block_ids, store)

\* to_datanode_info_proto, lines 23-31: the identity of the datanode.
to_datanode_info_proto(datanode) ==
    [admin_state |-> 0,
     id |-> [ip_addr |-> datanode.ip_address,
             datanode_uuid |-> datanode.id,
             xfer_port |-> datanode.xfer_port]]

\* to_located_blocks_proto, lines 162-168: the replica locations.
RECURSIVE Locs(_, _)
Locs(locations, datanodes) ==
    IF locations = <<>> THEN <<>>
    ELSE IF Head(locations) \in DOMAIN datanodes
         THEN << to_datanode_info_proto(datanodes[Head(locations)]) >>
              \o Locs(Tail(locations), datanodes)
         ELSE Locs(Tail(locations), datanodes)

\* The loop over the resolved blocks with the file offset advanced by the
\* physical block's length (the statement commented out at line 179).
RECURSIVE LocatedBlocksPhysicalOffset(_, _, _, _)
LocatedBlocksPhysicalOffset(valid_block_ids, store, datanodes, length) ==
    IF valid_block_ids = <<>> THEN [blocks |-> <<>>, length |-> length]
    ELSE LET v == Head(valid_block_ids)
             block == store[v.block_id]
             b == IF v.query_result.some
                  THEN [block_id |-> v.query_result.val.id,
                        num_bytes |-> v.query_result.val.length]
                  ELSE [block_id |-> block.id, num_bytes |-> block.length]
             lb_proto == [b |-> b, offset |-> length, corrupt |-> FALSE,
                          locs |-> Locs(block.locations, datanodes),
                          storage_i_ds |-> block.storage_ids]
             rest == LocatedBlocksPhysicalOffset(Tail(valid_block_ids), store,
                                                 datanodes, length + block.length)
         IN [blocks |-> << lb_proto >> \o rest.blocks, length |-> rest.length]

\* to_located_blocks_proto, lines 138-185: the loop over the resolved blocks.
RECURSIVE LocatedBlocks(_, _, _, _)
LocatedBlocks(valid_block_ids, store, datanodes, length) ==
    IF valid_block_ids = <<>> THEN [blocks |-> <<>>, length |-> length]
    ELSE LET v == Head(valid_block_ids)
             block == store[v.block_id]
             b == IF v.query_result.some
                  THEN [block_id |-> v.query_result.val.id,
                        num_bytes |-> v.query_result.val.length]
                  ELSE [block_id |-> block.id, num_bytes |-> block.length]
             lb_proto == [b |-> b, offset |-> length, corrupt |-> FALSE,
                          locs |-> Locs(block.locations, datanodes),
                          storage_i_ds |-> block.storage_ids]
             rest == LocatedBlocks(Tail(valid_block_ids), store, datanodes,
                                   length + b.num_bytes)
         IN [blocks |-> << lb_proto >> \o rest.blocks, length |-> rest.length]

to_located_blocks_proto(block_ids, q, store, datanodes, idx) ==
    LET r == LocatedBlocks(validate_block_ids(block_ids, store, idx, q),
                           store, datanodes, 0)
    IN [blocks |-> r.blocks, file_length |-> r.length,
        under_construction |-> FALSE, is_last_block_complete |-> TRUE]

ValidateBlockIds ==
    /\ valid' = Some(validate_block_ids(file_blocks, block_store,
                                        spatial_index, query))
    /\ UNCHANGED <<file_blocks, query, block_store, datanode_store,
                   spatial_index, lbs_proto, dn_vars>>

ToLocatedBlocksProto ==
    /\ lbs_proto' = Some(to_located_blocks_proto(file_blocks, query, block_store,
                                                 datanode_store, spatial_index))
    /\ UNCHANGED <<file_blocks, query, block_store, datanode_store,
                   spatial_index, valid, dn_vars>>

(***************************************************************************)
(* SpecNamenode: one file, one optional query, resolved and projected.     *)
(* Blocks 1..MaxBlocks are in the block store; block MaxBlocks + 1 is a    *)
(* block id of the file the store does not hold yet.  Datanodes 1 and 2    *)
(* are registered, datanode 3 is not.                                      *)
(***************************************************************************)
StoredIds == 1..MaxBlocks
FileIds == 1..(MaxBlocks + 1)

BlockLocations == { <<1, 2>>, <<3, 1>> }
BlockIndexes ==
    { <<>>,
      << [geohash |-> 0, length |-> 3] >>,
      << [geohash |-> 0, length |-> 3], [geohash |-> 6, length |-> 4] >> }
Queries == { None, Some({0}), Some({6}), Some({0, 6}), Some({5}) }

InitDatanodeIdle ==
    /\ operation = "DONE"
    /\ data = <<>>
    /\ replicas = <<>>
    /\ bm_proto = BlockMetadataProto_default
    /\ timestamps = None
    /\ index = None
    /\ data_file = None
    /\ meta_file = None
    /\ wire = <<>>
    /\ attempts = <<>>
    /\ transfer = [returned |-> "none", faults |-> <<>>]
    /\ read = [called |-> FALSE]

InitNamenode ==
    /\ InitDatanodeIdle
    /\ file_blocks \in SeqsUpTo(FileIds, MaxBlocks)
    /\ query \in Queries
    /\ \E locs \in [StoredIds -> BlockLocations] :
          block_store = [b \in StoredIds |->
                            [id |-> b, length |-> 10 * b,
                             locations |-> locs[b],
                             storage_ids |-> << 100 + b >>]]
    /\ datanode_store = [d \in {1, 2} |->
                            [id |-> d, ip_address |-> 10 + d, xfer_port |-> 20 + d]]
    /\ spatial_index \in [StoredIds -> BlockIndexes]
    /\ valid = None
    /\ lbs_proto = None

NextNamenode == ValidateBlockIds \/ ToLocatedBlocksProto

SpecNamenode == InitNamenode /\ [][NextNamenode]_vars

(***************************************************************************)
(* The record format, as the payload's text defines it: records end at a   *)
(* newline (the last one maybe at the end of the payload), fields are      *)
(* separated by commas, field 0 is the latitude, field 1 the longitude,    *)
(* field 3 the timestamp followed by two bytes of suffix.                  *)
(***************************************************************************)
RECURSIVE RecordsFrom(_, _, _)
RecordsFrom(d, start, pos) ==
    IF pos = Len(d)
    THEN IF start < pos THEN << <<start, pos>> >> ELSE <<>>
    ELSE IF At(d, pos) = NEWLINE
    THEN << <<start, pos + 1>> >> \o RecordsFrom(d, pos + 1, pos + 1)
    ELSE RecordsFrom(d, start, pos + 1)

RecordsOf(d) == RecordsFrom(d, 0, 0)
RecordBytes(d, r) == Slice(d, r[1], r[2])
RecordText(d, r) ==
    IF At(d, r[2] - 1) = NEWLINE THEN Slice(d, r[1], r[2] - 1) ELSE Slice(d, r[1], r[2])

CommaCount(s) == Cardinality({k \in 1..Len(s) : s[k] = COMMA})
FieldCount(d, r) == CommaCount(RecordBytes(d, r)) + 1

RECURSIVE FieldsOf(_)
FieldsOf(s) ==
    LET commas == {k \in 1..Len(s) : s[k] = COMMA}
    IN IF commas = {} THEN << s >>
       ELSE LET c == CHOOSE k \in commas : \A j \in commas : k <= j
            IN << SubSeq(s, 1, c - 1) >> \o FieldsOf(SubSeq(s, c + 1, Len(s)))

\* The spatial code of a record, None when the record does not parse.
RecordCode(d, r) ==
    LET f == FieldsOf(RecordText(d, r))
    IN IF Len(f) < 4 THEN None
       ELSE IF Len(f[4]) < 2 THEN None
       ELSE IF ParseNumber(f[1]) < 0 \/ ParseNumber(f[2]) < 0
               \/ ParseNumber(SubSeq(f[4], 1, Len(f[4]) - 2)) < 0 THEN None
       ELSE encode_16(ParseNumber(f[1]), ParseNumber(f[2]))

\* Schema width: the field count of the first record after the header.
SchemaWidth(d) == FieldCount(d, RecordsOf(d)[2])

\* The positions (in RecordsOf) of the accepted records: after the header,
\* of the schema width, and parsing.
AcceptedRecords(d) ==
    {i \in 2..Len(RecordsOf(d)) :
        /\ FieldCount(d, RecordsOf(d)[i]) = SchemaWidth(d)
        /\ RecordCode(d, RecordsOf(d)[i]).some}

RECURSIVE SortedCodes(_)
SortedCodes(S) ==
    IF S = {} THEN <<>>
    ELSE LET m == CHOOSE x \in S : \A y \in S \ {x} : StrLess(x, y)
         IN << m >> \o SortedCodes(S \ {m})

\* The bytes of the accepted records of code c, in first-seen order.
RECURSIVE GroupBytes(_, _, _)
GroupBytes(d, c, i) ==
    IF i > Len(RecordsOf(d)) THEN <<>>
    ELSE (IF i \in AcceptedRecords(d) /\ RecordCode(d, RecordsOf(d)[i]) = Some(c)
          THEN RecordBytes(d, RecordsOf(d)[i]) ELSE <<>>)
         \o GroupBytes(d, c, i + 1)

AcceptedBytes(d) ==
    LET codes == SortedCodes({RecordCode(d, RecordsOf(d)[i]).val :
                                 i \in AcceptedRecords(d)})
    IN Concat([k \in 1..Len(codes) |-> GroupBytes(d, codes[k], 2)])

ConsistentFieldCount(d) ==
    \A i, j \in 2..Len(RecordsOf(d)) :
        FieldCount(d, RecordsOf(d)[i]) = FieldCount(d, RecordsOf(d)[j])

\* The byte ranges of the payload held by the index, over all codes.
IndexedRanges ==
    UNION { {index.val[k].ranges[j] : j \in 1..Len(index.val[k].ranges)} :
              k \in 1..Len(index.val) }

\* The index holds a range for record i of the payload, under code c.
IndexedUnder(i, c) ==
    \E k \in 1..Len(index.val) :
        /\ index.val[k].key = c
        /\ \E j \in 1..Len(index.val[k].ranges) :
              index.val[k].ranges[j][1] = RecordsOf(data)[i][1]

(***************************************************************************)
(* C1.  After write_block on a BlockOperation that carries an index, the   *)
(* persisted index descriptor partitions the rewritten data file: the      *)
(* first start is 0, start <= end in every entry, each end is the next     *)
(* start, and the last end is the metadata's length, which is the number   *)
(* of bytes written to the data file.                                      *)
(***************************************************************************)
C1_IndexPartitionsDataFile ==
    (meta_file.some /\ index.some) =>
        LET bm == decode_length_delimited(meta_file.val)
            bi == bm.index.val
            n == Len(bi.start_indices)
        IN /\ bm.index.some
           /\ Len(bi.end_indices) = n
           /\ Len(bi.geohashes) = n
           /\ n > 0 => bi.start_indices[1] = 0
           /\ \A i \in 1..n : bi.start_indices[i] <= bi.end_indices[i]
           /\ \A i \in 1..(n - 1) : bi.end_indices[i] = bi.start_indices[i + 1]
           /\ n > 0 => bi.end_indices[n] = bm.length
           /\ n = 0 => bm.length = 0
           /\ bm.length = Len(data_file.val)

\* C1 witness: a written block of two codes whose records were reordered and
\* whose written length is shorter than the payload.
C1_Witness ==
    /\ meta_file.some /\ index.some
    /\ Len(index.val) = 2
    /\ bm_proto.length > 0
    /\ bm_proto.length < Len(data)
    /\ index.val[1].ranges[1][1] > index.val[2].ranges[1][1]

(***************************************************************************)
(* C2.  For every block whose records have one field count, index_block,   *)
(* write_block and a filtered read of every code from offset 0 give back   *)
(* the complete bytes of the accepted records, grouped by sorted code and  *)
(* in first-seen order within a code.                                      *)
(***************************************************************************)
C2_RoundTripKeepsAcceptedRecords ==
    (read.called /\ ConsistentFieldCount(data)) =>
        /\ read.status = "ok"
        /\ read.buf = AcceptedBytes(data)

(***************************************************************************)
(* C4.  A record that passes the field-count check and cannot be parsed    *)
(* is dropped without ending index_block: on a non-empty payload           *)
(* index_block returns, and no record that does not parse is indexed.      *)
(***************************************************************************)
C4_ParseFailuresAreNotFatal ==
    (Len(data) > 0 /\ operation # "INDEX") =>
        /\ operation # "PANIC"
        /\ index.some
        /\ \A r \in IndexedRanges :
              \E i \in 2..Len(RecordsOf(data)) :
                  /\ RecordsOf(data)[i][1] = r[1]
                  /\ RecordCode(data, RecordsOf(data)[i]).some

(***************************************************************************)
(* C10.  The first record is a header, never indexed and never the source  *)
(* of the schema width; the first record after it sets the width to its    *)
(* number of commas plus one; a later record of another width is in no     *)
(* index entry, and a later record of that width that parses is in its     *)
(* code's range list.                                                      *)
(***************************************************************************)
C10_HeaderAndSchemaWidth ==
    index.some =>
        /\ \A r \in IndexedRanges : r[1] # 0
        /\ \A r \in IndexedRanges :
              \E i \in 2..Len(RecordsOf(data)) :
                  /\ RecordsOf(data)[i][1] = r[1]
                  /\ FieldCount(data, RecordsOf(data)[i]) = SchemaWidth(data)
        /\ \A i \in AcceptedRecords(data) :
              IndexedUnder(i, RecordCode(data, RecordsOf(data)[i]).val)

(***************************************************************************)
(* The filtered view of the written block for a set of acceptable values:  *)
(* the byte ranges, in the metadata's stored order, of the entries whose   *)
(* code's last character has an acceptable value.                          *)
(***************************************************************************)
StoredIndex ==
    LET bm == decode_length_delimited(meta_file.val)
    IN IF bm.index.some THEN bm.index.val
       ELSE [geohashes |-> <<>>, start_indices |-> <<>>, end_indices |-> <<>>]

LastCharValue(code) ==
    IF code = <<>> THEN -1
    ELSE LET c == code[Len(code)]
         IN IF c \in 48..57 THEN c - 48 ELSE IF c \in 97..102 THEN c - 87 ELSE -1

Acceptable(i, acceptable) == LastCharValue(StoredIndex.geohashes[i]) \in acceptable

EntryLength(i) == StoredIndex.end_indices[i] - StoredIndex.start_indices[i]

RECURSIVE ViewFrom(_, _)
ViewFrom(i, acceptable) ==
    IF i > Len(StoredIndex.geohashes) THEN <<>>
    ELSE (IF Acceptable(i, acceptable)
          THEN Slice(data_file.val, StoredIndex.start_indices[i],
                     StoredIndex.end_indices[i])
          ELSE <<>>) \o ViewFrom(i + 1, acceptable)

FilteredView(acceptable) == ViewFrom(1, acceptable)

(***************************************************************************)
(* C5.  The filtered read is resumable: with V the filtered view, for      *)
(* every offset o <= |V| and every destination of n <= |V| - o bytes,      *)
(* read_indexed_block returns successfully with the destination holding    *)
(* V[o .. o+n).                                                            *)
(***************************************************************************)
C5_ReadReturnsPageOfView ==
    read.called =>
        LET V == FilteredView(read.geohashes)
            o == read.offset
            n == Len(read.buf0)
        IN (o <= Len(V) /\ n <= Len(V) - o) =>
              /\ read.status = "ok"
              /\ read.buf = SubSeq(V, o + 1, o + n)

C3_EveryReplicaAttemptedOnce ==
    transfer.returned # "none" =>
        \A i \in 1..Len(replicas) : attempts[i] = 1

(***************************************************************************)
(* C7.  After index, write, transfer (or write, transfer), what reached a  *)
(* replica whose connection and writes succeeded is the version, the       *)
(* operation tag, the bytes of the local metadata file and the bytes of    *)
(* the local data file; what reached any other replica is a prefix of      *)
(* that.  The transferred offset arrays therefore index the transferred    *)
(* payload as they index the data file.                                    *)
(***************************************************************************)
ExpectedStream ==
    << DATA_TRANSFER_VERSION \div 256, DATA_TRANSFER_VERSION % 256,
       OP_TRANSFER_BLOCK >> \o meta_file.val \o data_file.val

C7_TransferMatchesLocalFiles ==
    operation = "DONE" =>
        \A i \in 1..Len(replicas) :
            /\ (transfer.faults[i] = "ok" /\ attempts[i] = 1) =>
                  wire[i] = ExpectedStream
            /\ Len(wire[i]) <= Len(ExpectedStream)
            /\ wire[i] = SubSeq(ExpectedStream, 1, Len(wire[i]))

\* C7 witness: an indexed block of two codes whose records were reordered,
\* delivered whole to a replica.
C7_Witness ==
    /\ operation = "DONE"
    /\ index.some /\ Len(index.val) = 2
    /\ index.val[1].ranges[1][1] > index.val[2].ranges[1][1]
    /\ \E i \in 1..Len(replicas) :
          /\ transfer.faults[i] = "ok" /\ attempts[i] = 1
          /\ wire[i] = ExpectedStream
          /\ data_file.val # data

(***************************************************************************)
(* What the spatial index holds for a block and a query.                   *)
(***************************************************************************)
Candidates == {file_blocks[k] : k \in 1..Len(file_blocks)}

Matched(b) ==
    IF b \in DOMAIN spatial_index
    THEN {k \in 1..Len(spatial_index[b]) : spatial_index[b][k].geohash \in query.val}
    ELSE {}

RECURSIVE MatchedLength(_, _)
MatchedLength(b, K) ==
    IF K = {} THEN 0
    ELSE LET k == CHOOSE x \in K : TRUE
         IN spatial_index[b][k].length + MatchedLength(b, K \ {k})

MatchedValues(b) == {spatial_index[b][k].geohash : k \in Matched(b)}

(***************************************************************************)
(* C8.  With a query, validate_block_ids returns exactly one entry for     *)
(* each candidate block with at least one matched code and none for a      *)
(* block with no matched code; the entry's override has the id             *)
(* encode_block_id(physical id, matched codes) and the sum of the matched  *)
(* codes' lengths as its length.                                           *)
(***************************************************************************)
C8_QueryResolution ==
    (valid.some /\ query.some) =>
        LET res == valid.val
        IN /\ \A b \in Candidates :
                Cardinality({k \in 1..Len(res) : res[k].block_id = b})
                    = IF Matched(b) # {} THEN 1 ELSE 0
           /\ \A k \in 1..Len(res) :
                LET b == res[k].block_id
                IN /\ b \in Candidates
                   /\ res[k].query_result.some
                   /\ \E codes \in [1..Cardinality(Matched(b)) -> MatchedValues(b)] :
                         /\ {codes[j] : j \in DOMAIN codes} = MatchedValues(b)
                         /\ res[k].query_result.val.id = encode_block_id(b, codes)
                   /\ res[k].query_result.val.length = MatchedLength(b, Matched(b))

\* C8 witness: two candidate blocks, one with matched codes and one with
\* none; the one entry's length is below the block's physical length.
C8_Witness ==
    /\ valid.some /\ query.some
    /\ Cardinality(Candidates) >= 2
    /\ \E b \in Candidates : Matched(b) = {}
    /\ Len(valid.val) = 1
    /\ Cardinality(Matched(valid.val[1].block_id)) = 2
    /\ valid.val[1].query_result.val.length
         < block_store[valid.val[1].block_id].length

(***************************************************************************)
(* C9.  In the located-blocks descriptor every resolved block is emitted   *)
(* with the override (id, length) when it has one and the physical (id,    *)
(* length) otherwise; a block's offset is the sum of the lengths emitted   *)
(* before it and file_length the sum of all emitted lengths; the storage   *)
(* ids and the replica locations are those of the physical block (each     *)
(* location as the datanode store resolves it), query or no query.         *)
(***************************************************************************)
RECURSIVE EmittedBefore(_, _)
EmittedBefore(blocks, k) ==
    IF k <= 1 THEN 0 ELSE blocks[k - 1].b.num_bytes + EmittedBefore(blocks, k - 1)

RECURSIVE Registered(_)
Registered(locations) ==
    IF locations = <<>> THEN <<>>
    ELSE (IF Head(locations) \in DOMAIN datanode_store
          THEN << Head(locations) >> ELSE <<>>) \o Registered(Tail(locations))

RecordTimestamp(d, r) ==
    IF RecordCode(d, r).some
    THEN LET f == FieldsOf(RecordText(d, r))
         IN ParseNumber(SubSeq(f[4], 1, Len(f[4]) - 2))
    ELSE -1

\* The timestamps of the records of the payload that have a range in the
\* index.
IndexedTimestamps ==
    {RecordTimestamp(data, RecordsOf(data)[i]) :
        i \in {j \in 2..Len(RecordsOf(data)) :
                  \E r \in IndexedRanges : r[1] = RecordsOf(data)[j][1]}}

(***************************************************************************)
(* C11.  Every metadata record write_block persists for an indexed block   *)
(* has a well-formed time range: start_timestamp <= end_timestamp, and     *)
(* both are timestamps of records accepted into the index.  This is        *)
(* stated for every payload index_block completes on, a block with no      *)
(* accepted record included.                                               *)
(***************************************************************************)
C11_TimeRangeWellFormed ==
    (meta_file.some /\ index.some) =>
        LET bm == decode_length_delimited(meta_file.val)
            bi == bm.index.val
        IN /\ bm.index.some
           /\ bi.start_timestamp <= bi.end_timestamp
           /\ bi.start_timestamp \in IndexedTimestamps
           /\ bi.end_timestamp \in IndexedTimestamps

====
